---------------------------- MODULE Spec2Model ----------------------------
(***************************************************************************)
(* Model of the WeatherAppAgent artifact pipeline of agentic-demo-memex:   *)
(* src/smart_agent.py (first pipeline, "v1") and src/smart_agent_v2.py     *)
(* (second pipeline, "v2").                                                *)
(*                                                                         *)
(* Text is a sequence of one-character strings.  The external memex        *)
(* store, the generator and the file tree are the environment: their       *)
(* answers (exit codes, printed ids, generated text) are inputs of the     *)
(* actions.                                                                *)
(***************************************************************************)
EXTENDS Integers, Sequences, FiniteSets, TLC

VARIABLES
    variant,      \* which program runs: "v1", "v2", "api" or "extract"
    pc,           \* index of the next instruction of start_project
    status,       \* "running", "done" or "aborted" (an exception left start_project)
    node_map,     \* self.node_map: description -> node id
    nodes,        \* the memex store: nodes[id] is the content of node id
    edges,        \* the memex store: set of <<src id, dst id, relation>>
    temp_txt,     \* the staging file temp.txt: Absent or its content
    files,        \* the written file tree: path -> content
    locals,       \* local variables of the running stage: name -> text
    last,         \* outcome of the last call of a registry method
    stored,       \* description -> content of its last successful _store_in_memex
    history,      \* the events of the run so far, in order
    faults,       \* number of tolerated environment deviations so far
    ex_content,   \* extractor input: content
    ex_arg,       \* extractor input: section name or language tag
    ex_op,        \* extractor operation applied ("none" before it ran)
    ex_result     \* extractor result

vars == <<variant, pc, status, node_map, nodes, edges, temp_txt, files, locals,
          last, stored, history, faults, ex_content, ex_arg, ex_op, ex_result>>

pipeVars == <<variant, pc, status, node_map, nodes, edges, temp_txt, files,
              locals, last, stored, history, faults>>

exVars == <<ex_content, ex_arg, ex_op, ex_result>>

----------------------------------------------------------------------------
(* Bounds of the model *)

\* longest body after the heading line in the JSON extractor inputs
MaxJsonBody == 4

\* longest text after the opening fence in the code extractor inputs
MaxCodeBody == 6

\* longest content in the section extractor inputs
MaxSectionLen == 5

\* environment deviations one pipeline run tolerates without aborting (an id
\* taken from the status output, a failing cat, a failing link)
MaxFaults == 1

\* calls of registry methods in one run of the method-level specification
MaxCalls == 3
MaxSectionBody == 3

----------------------------------------------------------------------------
(* Text helpers *)

\* Python's str.isspace characters that occur in the model's alphabet
WS == {" ", "\n"}

Min(S) == CHOOSE x \in S : \A y \in S : x <= y

Max(S) == CHOOSE x \in S : \A y \in S : x >= y

\* all sequences over alphabet A of length 0..n
SeqsUpTo(A, n) == UNION {[1..k -> A] : k \in 0..n}

\* does p occur in s starting at index i
IsPrefixAt(p, s, i) ==
    /\ i >= 1
    /\ i + Len(p) - 1 <= Len(s)
    /\ \A k \in 1..Len(p) : s[i + k - 1] = p[k]

\* first index >= from whose character is in S, Len(s)+1 if none
NextIn(s, from, S) ==
    Min({k \in from..Len(s) : s[k] \in S} \cup {Len(s) + 1})

\* first index >= from whose character is not in S, Len(s)+1 if none
NextNotIn(s, from, S) ==
    Min({k \in from..Len(s) : s[k] \notin S} \cup {Len(s) + 1})

\* Python's str.strip()
Strip(s) ==
    LET keep == {k \in 1..Len(s) : s[k] \notin WS}
    IN  IF keep = {} THEN <<>> ELSE SubSeq(s, Min(keep), Max(keep))

----------------------------------------------------------------------------
(* Extractor: smart_agent_v2.py, the three regular-expression searches *)

\* The heading search of _extract_section matching at i:
\* the literal "# name", then greedy whitespace up to w, then the group.  When
\* the whitespace run is followed by '#' or by the end, \s+ gives one
\* character back and the group is that single whitespace character.
SectionBodyStart(content, section_name, i) ==
    NextNotIn(content, i + 2 + Len(section_name), WS)

SectionGreedy(content, section_name, i) ==
    LET w == SectionBodyStart(content, section_name, i)
    IN  w <= Len(content) /\ content[w] # "#"

SectionMatchAt(content, section_name, i) ==
    LET e == i + 2 + Len(section_name)
        w == SectionBodyStart(content, section_name, i)
    IN  /\ IsPrefixAt(<<"#", " ">> \o section_name, content, i)
        /\ w > e
        /\ (SectionGreedy(content, section_name, i) \/ w - e >= 2)

SectionGroup(content, section_name, i) ==
    LET w == SectionBodyStart(content, section_name, i)
    IN  IF SectionGreedy(content, section_name, i)
        THEN SubSeq(content, w, NextIn(content, w, {"#"}) - 1)
        ELSE <<content[w - 1]>>

extract_section(content, section_name) ==
    LET I == {i \in 1..Len(content) : SectionMatchAt(content, section_name, i)}
    IN  IF I = {} THEN <<>>
        ELSE Strip(SectionGroup(content, section_name, Min(I)))

\* The object search of _extract_json matching at i: an opening brace, at
\* least one character that is not a closing brace, then the first closing
\* brace after i.
JsonCloseAt(section, i) == NextIn(section, i + 1, {"}"})

JsonMatchAt(section, i) ==
    /\ section[i] = "{"
    /\ JsonCloseAt(section, i) <= Len(section)
    /\ JsonCloseAt(section, i) >= i + 2

extract_json(content, section_name) ==
    LET section == extract_section(content, section_name)
        I == {i \in 1..Len(section) : JsonMatchAt(section, i)}
    IN  IF I = {} THEN <<"{", "}">>
        ELSE SubSeq(section, Min(I), JsonCloseAt(section, Min(I)))

\* The fenced-block search of _extract_code matching at i: the fence and the
\* tag, whitespace ending in a newline at j, a non-empty group without
\* backticks, then a newline and a fence at the first backtick k after the tag.
BT == "~"   \* stands for the backtick, which a TLA+ string cannot hold

Fence == <<BT, BT, BT>>

CodeCloseAt(content, language, i) ==
    NextIn(content, i + 3 + Len(language), {BT})

CodeStarts(content, language, i) ==
    LET e == i + 3 + Len(language)
        k == CodeCloseAt(content, language, i)
    IN  {j \in e..(k - 3) :
            /\ content[j] = "\n"
            /\ \A m \in e..j : content[m] \in WS}

CodeMatchAt(content, language, i) ==
    LET k == CodeCloseAt(content, language, i)
    IN  /\ IsPrefixAt(Fence \o language, content, i)
        /\ IsPrefixAt(Fence, content, k)
        /\ k >= 2
        /\ content[k - 1] = "\n"
        /\ CodeStarts(content, language, i) # {}

CodeGroup(content, language, i) ==
    SubSeq(content, Max(CodeStarts(content, language, i)) + 1,
           CodeCloseAt(content, language, i) - 2)

\* _extract_code with a fallback that trims the content it returns
extract_code_trimmed_fallback(content, language) ==
    LET I == {i \in 1..Len(content) : CodeMatchAt(content, language, i)}
    IN  IF I = {} THEN Strip(content)
        ELSE Strip(CodeGroup(content, language, Min(I)))

extract_code(content, language) ==
    LET I == {i \in 1..Len(content) : CodeMatchAt(content, language, i)}
    IN  IF I = {} THEN content
        ELSE Strip(CodeGroup(content, language, Min(I)))

----------------------------------------------------------------------------
(* Registry and store client: _store_in_memex, _get_memex_content *)

\* temp.txt does not exist
Absent == [exists |-> FALSE, text |-> <<>>]

\* the dictionary assignment f[k] = v
Put(f, k, v) == [x \in DOMAIN f \cup {k} |-> IF x = k THEN v ELSE f[x]]

\* What the memex process answers to one _store_in_memex call when the store
\* holds n nodes: the exit code of add, whether its output holds the line
\* "Added node: <id>" of the new node, the exit code of status, and the id of
\* the first "Node ID: <id>" line of the status output (0: no such line).
StoreEnvs(n) ==
    {[add_rc |-> 1, add_prints_id |-> FALSE, status_rc |-> 1, status_id |-> 0],
     [add_rc |-> 0, add_prints_id |-> TRUE, status_rc |-> 0, status_id |-> 0],
     [add_rc |-> 0, add_prints_id |-> FALSE, status_rc |-> 1, status_id |-> 0]}
    \cup {[add_rc |-> 0, add_prints_id |-> FALSE, status_rc |-> 0, status_id |-> k] :
             k \in 0..(n + 1)}

\* the node id the two searches of _store_in_memex find (0: node_match is None)
NodeMatch(ns, env) ==
    IF env.add_prints_id THEN Len(ns) + 1
    ELSE IF env.status_rc = 0 THEN env.status_id
    ELSE 0

\* The try block of _store_in_memex: temp.txt is written, memex add runs, the
\* id is searched in its output and then in the status output, and the
\* description is recorded.  raised: an exception leaves the block.
StoreTry(nm, ns, content, description, env) ==
    LET written == [exists |-> TRUE, text |-> content]
    IN  IF env.add_rc # 0
        THEN [node_map |-> nm, nodes |-> ns, temp_txt |-> written,
              raised |-> TRUE, ret |-> 0]
        ELSE IF NodeMatch(ns, env) = 0
        THEN [node_map |-> nm, nodes |-> Append(ns, content), temp_txt |-> written,
              raised |-> TRUE, ret |-> 0]
        ELSE [node_map |-> Put(nm, description, NodeMatch(ns, env)),
              nodes |-> Append(ns, content), temp_txt |-> written,
              raised |-> FALSE, ret |-> NodeMatch(ns, env)]

\* a cleanup that runs only when the try block completes
StoreCleanupOnSuccessOnly(r) ==
    IF r.raised THEN r ELSE [r EXCEPT !.temp_txt = Absent]

\* The finally block of _store_in_memex: temp.txt is removed if it exists.
StoreFinally(r) == [r EXCEPT !.temp_txt = Absent]

store_in_memex(nm, ns, content, description, env) ==
    StoreFinally(StoreTry(nm, ns, content, description, env))

\* _get_memex_content: empty text for an unrecorded description and for a
\* failing cat, else the output of cat, which prints the node's content.
get_memex_content(nm, ns, description, cat_rc) ==
    IF description \notin DOMAIN nm THEN <<>>
    ELSE IF cat_rc # 0 THEN <<>>
    ELSE ns[nm[description]]

----------------------------------------------------------------------------
(* Texts of the programs.  The template texts are shortened: a heading name  *)
(* is one letter, a JSON value keeps its nesting of braces, other runs of    *)
(* text are one letter.                                                      *)

\* section names of the configuration template
ProjectStructure == <<"P">>

FrontendDependencies == <<"F">>

BackendDependencies == <<"B">>

FrontendTypeScriptConfig == <<"T">>

CSSModulesTypeDefinition == <<"C">>

\* smart_agent_v2.py: config of _store_project_config
config_v2 ==
    <<"W", "\n", "#", " ", "P", "\n", "/", "w", "\n", "#", " ", "F", "\n",
      "{", "a", "{", "b", "}", "c", "{", "d", "}", "}", "\n", "#", " ",
      "B", "\n", "{", "e", "{", "f", "}", "g", "{", "h", "}", "}", "\n",
      "#", " ", "T", "\n", "{", "o", "{", "t", "}", "i", "{", "p", "}",
      "}", "\n", "#", " ", "C", "\n", "m", "{", "c", "{", "k", "}", "}",
      "\n">>

\* smart_agent.py: config of start_project ("TypeScript Configurations" holds a
\* second-level heading)
config_v1 ==
    <<"W", "\n", "#", " ", "P", "\n", "/", "w", "\n", "#", " ", "F", "\n",
      "{", "a", "{", "b", "}", "c", "{", "d", "}", "}", "\n", "#", " ",
      "B", "\n", "{", "e", "{", "f", "}", "g", "{", "h", "}", "}", "\n",
      "#", " ", "T", "\n", "#", "#", " ", "f", "\n", "{", "o", "{", "t",
      "}", "i", "{", "p", "}", "}", "\n", "#", " ", "C", "\n", "m", "{",
      "c", "{", "k", "}", "}", "\n">>

plan == <<"P", "l", "a", "n">>

decisions == <<"D", "f">>

backend_decisions == <<"D", "b">>

deployment_decisions == <<"D", "d">>

vite_config_ts == <<"v">>

index_html == <<"i">>

backend_tsconfig_json == <<"{", "o", "}">>

\* language tags of the fenced blocks
tsx == <<"t", "s", "x">>

css == <<"c", "s", "s">>

typescript == <<"t", "y", "p", "e", "s", "c", "r", "i", "p", "t">>

dockerfile == <<"d", "o", "c", "k", "e", "r", "f", "i", "l", "e">>

yaml == <<"y", "a", "m", "l">>

\* a generated text without any fenced block
PlainResponse == <<"p">>

\* a generated text with one fenced block per language tag
FencedResponse ==
    <<"r", "\n", BT, BT, BT, "t", "s", "x", "\n", "x", "\n", BT, BT, BT,
      "\n", BT, BT, BT, "c", "s", "s", "\n", "c", "\n", BT, BT, BT, "\n",
      BT, BT, BT, "t", "y", "p", "e", "s", "c", "r", "i", "p", "t", "\n",
      "s", "\n", BT, BT, BT, "\n", BT, BT, BT, "d", "o", "c", "k", "e",
      "r", "f", "i", "l", "e", "\n", "d", "\n", BT, BT, BT, "\n", BT, BT,
      BT, "y", "a", "m", "l", "\n", "y", "\n", BT, BT, BT, "\n">>

\* response.choices[0].message.content of a generator call that returns
Responses == {PlainResponse, FencedResponse}

----------------------------------------------------------------------------
(* Instructions of start_project: the calls the stage methods make, in order *)

NoInstr ==
    [op |-> "none", stage |-> "", var |-> "", d |-> "", d2 |-> "", rel |-> "",
     path |-> "", text |-> <<>>, ctx |-> <<>>, xform |-> "", arg |-> <<>>]

\* the stage method is entered / has run to its end
I_begin(st) == [NoInstr EXCEPT !.op = "begin", !.stage = st]

I_end(st) == [NoInstr EXCEPT !.op = "end", !.stage = st]

\* var = """text"""
I_set(st, v, t) == [NoInstr EXCEPT !.op = "set", !.stage = st, !.var = v, !.text = t]

\* self._store_in_memex(var, d)
I_store(st, v, desc) ==
    [NoInstr EXCEPT !.op = "store", !.stage = st, !.var = v, !.d = desc]

\* var = self._get_memex_content(d)
I_get(st, v, desc) ==
    [NoInstr EXCEPT !.op = "get", !.stage = st, !.var = v, !.d = desc]

\* var = self.client.chat.completions.create(prompt built from ctx)...content
I_gen(st, v, c) == [NoInstr EXCEPT !.op = "gen", !.stage = st, !.var = v, !.ctx = c]

\* self._write_file(path, xform(var, arg))
I_write(st, pth, v, xf, a) ==
    [NoInstr EXCEPT !.op = "write", !.stage = st, !.path = pth, !.var = v,
                    !.xform = xf, !.arg = a]

\* self._write_file(path, """text""")
I_write_text(st, pth, t) ==
    [NoInstr EXCEPT !.op = "write", !.stage = st, !.path = pth, !.text = t,
                    !.xform = "text"]

\* run(["memex", "link", self.node_map[d], self.node_map[d2], rel])
I_link(st, desc, desc2, r) ==
    [NoInstr EXCEPT !.op = "link", !.stage = st, !.d = desc, !.d2 = desc2, !.rel = r]

(* smart_agent.py *)

store_project_config_v1 ==
    <<I_begin("Config"),
      I_set("Config", "config", config_v1),
      I_store("Config", "config", "project_config"),
      I_set("Config", "plan", plan),
      I_store("Config", "plan", "project_plan"),
      I_end("Config")>>

create_frontend_v1 ==
    <<I_begin("FrontendComponent"),
      I_get("FrontendComponent", "project_plan", "project_plan"),
      I_gen("FrontendComponent", "component", <<"project_plan">>),
      I_store("FrontendComponent", "component", "weather_display_component"),
      I_write("FrontendComponent",
              "weather-app/frontend/src/components/WeatherDisplay.tsx",
              "component", "raw", <<>>),
      I_set("FrontendComponent", "decisions", decisions),
      I_store("FrontendComponent", "decisions", "frontend_decisions"),
      I_link("FrontendComponent", "weather_display_component", "project_plan",
             "implements"),
      I_link("FrontendComponent", "frontend_decisions",
             "weather_display_component", "explains"),
      I_end("FrontendComponent")>>

create_data_hook_v1 ==
    <<I_begin("FrontendHook"),
      I_get("FrontendHook", "frontend_decisions", "frontend_decisions"),
      I_gen("FrontendHook", "hook", <<"frontend_decisions">>),
      I_store("FrontendHook", "hook", "weather_hook"),
      I_write("FrontendHook", "weather-app/frontend/src/hooks/useWeather.ts",
              "hook", "raw", <<>>),
      I_link("FrontendHook", "weather_hook", "weather_display_component",
             "provides-data"),
      I_end("FrontendHook")>>

create_backend_v1 ==
    <<I_begin("Backend"),
      I_get("Backend", "frontend_decisions", "frontend_decisions"),
      I_get("Backend", "hook_code", "weather_hook"),
      I_gen("Backend", "backend_code", <<"frontend_decisions", "hook_code">>),
      I_store("Backend", "backend_code", "backend_implementation"),
      I_set("Backend", "backend_decisions", backend_decisions),
      I_store("Backend", "backend_decisions", "backend_decisions"),
      I_link("Backend", "backend_implementation", "weather_hook", "serves"),
      I_link("Backend", "backend_decisions", "backend_implementation", "explains"),
      I_write("Backend", "weather-app/backend/src/server.ts",
              "backend_code", "raw", <<>>),
      I_end("Backend")>>

setup_deployment_v1 ==
    <<I_begin("Deployment"),
      I_get("Deployment", "backend_decisions", "backend_decisions"),
      I_get("Deployment", "frontend_decisions", "frontend_decisions"),
      I_gen("Deployment", "deployment_config",
            <<"backend_decisions", "frontend_decisions">>),
      I_store("Deployment", "deployment_config", "deployment_config"),
      I_set("Deployment", "deployment_decisions", deployment_decisions),
      I_store("Deployment", "deployment_decisions", "deployment_decisions"),
      I_link("Deployment", "deployment_config", "backend_implementation", "deploys"),
      I_link("Deployment", "deployment_decisions", "deployment_config", "explains"),
      I_write("Deployment", "weather-app/Dockerfile", "deployment_config", "raw", <<>>),
      I_end("Deployment")>>

\* _create_frontend calls _create_data_hook as its last statement
start_project_v1 ==
    store_project_config_v1 \o create_frontend_v1 \o create_data_hook_v1
        \o create_backend_v1 \o setup_deployment_v1

(* smart_agent_v2.py *)

store_project_config_v2 ==
    <<I_begin("Config"),
      I_set("Config", "config", config_v2),
      I_store("Config", "config", "project_config"),
      I_set("Config", "plan", plan),
      I_store("Config", "plan", "project_plan"),
      I_end("Config")>>

setup_project_structure_v2 ==
    <<I_begin("Structure"),
      I_get("Structure", "config", "project_config"),
      I_write("Structure", "weather-app/frontend/package.json",
              "config", "json", FrontendDependencies),
      I_write("Structure", "weather-app/frontend/tsconfig.json",
              "config", "json", FrontendTypeScriptConfig),
      I_write("Structure", "weather-app/frontend/src/types/css.d.ts",
              "config", "section", CSSModulesTypeDefinition),
      I_write_text("Structure", "weather-app/frontend/vite.config.ts", vite_config_ts),
      I_write_text("Structure", "weather-app/frontend/index.html", index_html),
      I_write("Structure", "weather-app/backend/package.json",
              "config", "json", BackendDependencies),
      I_write_text("Structure", "weather-app/backend/tsconfig.json",
                   backend_tsconfig_json),
      I_end("Structure")>>

create_frontend_v2 ==
    <<I_begin("FrontendComponent"),
      I_get("FrontendComponent", "project_plan", "project_plan"),
      I_gen("FrontendComponent", "component", <<"project_plan">>),
      I_store("FrontendComponent", "component", "weather_display_component"),
      I_write("FrontendComponent",
              "weather-app/frontend/src/components/WeatherDisplay.tsx",
              "component", "code", tsx),
      I_write("FrontendComponent",
              "weather-app/frontend/src/components/WeatherDisplay.module.css",
              "component", "code_if_match", css),
      I_end("FrontendComponent")>>

\* the Backend stage resolving a description no stage of this pipeline stores
create_backend_v2_resolving_hook ==
    <<I_begin("Backend"),
      I_get("Backend", "frontend_code", "weather_hook"),
      I_gen("Backend", "backend", <<"frontend_code">>),
      I_store("Backend", "backend", "backend_implementation"),
      I_write("Backend", "weather-app/backend/src/server.ts",
              "backend", "code", typescript),
      I_end("Backend")>>

create_backend_v2 ==
    <<I_begin("Backend"),
      I_get("Backend", "frontend_code", "weather_display_component"),
      I_gen("Backend", "backend", <<"frontend_code">>),
      I_store("Backend", "backend", "backend_implementation"),
      I_write("Backend", "weather-app/backend/src/server.ts",
              "backend", "code", typescript),
      I_end("Backend")>>

setup_deployment_v2 ==
    <<I_begin("Deployment"),
      I_get("Deployment", "backend_code", "backend_implementation"),
      I_gen("Deployment", "deployment", <<"backend_code">>),
      I_store("Deployment", "deployment", "deployment_config"),
      I_write("Deployment", "weather-app/Dockerfile", "deployment", "code", dockerfile),
      I_write("Deployment", "weather-app/docker-compose.yml",
              "deployment", "code", yaml),
      I_end("Deployment")>>

start_project_v2 ==
    store_project_config_v2 \o setup_project_structure_v2 \o create_frontend_v2
        \o create_backend_v2 \o setup_deployment_v2

Program ==
    IF variant = "v1" THEN start_project_v1
    ELSE IF variant = "v2" THEN start_project_v2
    ELSE <<>>

Instr == IF pc \in 1..Len(Program) THEN Program[pc] ELSE NoInstr

----------------------------------------------------------------------------
(* The run of start_project, one action per call *)

NoLast ==
    [op |-> "none", d |-> "", known |-> FALSE, raised |-> FALSE, rc |-> 0,
     id |-> 0, via |-> "", text |-> <<>>]

NoEvent ==
    [ev |-> "", stage |-> "", d |-> "", d2 |-> "", rel |-> "", path |-> "",
     ok |-> TRUE, id |-> 0, via |-> "", ctx |-> <<>>]

Running == variant \in {"v1", "v2"} /\ status = "running" /\ pc \in 1..Len(Program)

\* how the id of a store call was obtained
Via(env) ==
    IF env.add_rc # 0 THEN "add_failed"
    ELSE IF env.add_prints_id THEN "add"
    ELSE IF env.status_rc = 0 /\ env.status_id # 0 THEN "status"
    ELSE "none"

\* the exception is printed and the run goes on with the next statement
RaiseSwallowed == status' = status /\ pc' = pc + 1

\* an exception propagates out of start_project: no later statement runs
Raise == status' = "aborted" /\ pc' = pc

Continue == status' = status /\ pc' = pc + 1

Begin ==
    /\ Running /\ Instr.op = "begin"
    /\ history' = Append(history, [NoEvent EXCEPT !.ev = "begin", !.stage = Instr.stage])
    /\ Continue
    /\ UNCHANGED <<variant, node_map, nodes, edges, temp_txt, files, locals, last,
                   stored, faults, exVars>>

End ==
    /\ Running /\ Instr.op = "end"
    /\ history' = Append(history, [NoEvent EXCEPT !.ev = "end", !.stage = Instr.stage])
    /\ Continue
    /\ UNCHANGED <<variant, node_map, nodes, edges, temp_txt, files, locals, last,
                   stored, faults, exVars>>

Assign ==
    /\ Running /\ Instr.op = "set"
    /\ locals' = Put(locals, Instr.var, Instr.text)
    /\ Continue
    /\ UNCHANGED <<variant, node_map, nodes, edges, temp_txt, files, last, stored,
                   history, faults, exVars>>

\* one call self._store_in_memex(content, description) and its effect on the
\* registry, the store and the staging file
StoreCall(content, description, stage, env) ==
    LET r == store_in_memex(node_map, nodes, content, description, env)
    IN  /\ node_map' = r.node_map
        /\ nodes' = r.nodes
        /\ temp_txt' = r.temp_txt
        /\ stored' = IF r.raised THEN stored ELSE Put(stored, description, content)
        /\ last' = [NoLast EXCEPT !.op = "store", !.d = description,
                                  !.known = description \in DOMAIN node_map,
                                  !.raised = r.raised, !.rc = env.add_rc,
                                  !.id = r.ret, !.via = Via(env), !.text = content]
        /\ history' = Append(history,
               [NoEvent EXCEPT !.ev = "store", !.stage = stage, !.d = description,
                               !.ok = ~r.raised, !.id = r.ret, !.via = Via(env)])

StoreRaises(content, description, env) ==
    store_in_memex(node_map, nodes, content, description, env).raised

Store ==
    /\ Running /\ Instr.op = "store"
    /\ \E env \in StoreEnvs(Len(nodes)) :
         /\ Via(env) = "status" => faults < MaxFaults
         /\ faults' = IF Via(env) = "status" THEN faults + 1 ELSE faults
         /\ StoreCall(locals[Instr.var], Instr.d, Instr.stage, env)
         /\ IF StoreRaises(locals[Instr.var], Instr.d, env) THEN Raise ELSE Continue
    /\ UNCHANGED <<variant, edges, files, locals, exVars>>

\* one call self._get_memex_content(description) and what it returns
GetCall(description, stage, cat_rc) ==
    LET text == get_memex_content(node_map, nodes, description, cat_rc)
    IN  /\ last' = [NoLast EXCEPT !.op = "get", !.d = description,
                                  !.known = description \in DOMAIN node_map,
                                  !.rc = cat_rc, !.text = text]
        /\ history' = Append(history,
               [NoEvent EXCEPT !.ev = "get", !.stage = stage, !.d = description,
                               !.ok = cat_rc = 0 /\ description \in DOMAIN node_map])

\* memex cat runs only for a recorded description
CatRcs(description) == IF description \in DOMAIN node_map THEN {0, 1} ELSE {0}

Get ==
    /\ Running /\ Instr.op = "get"
    /\ \E cat_rc \in CatRcs(Instr.d) :
         /\ cat_rc # 0 => faults < MaxFaults
         /\ faults' = IF cat_rc # 0 THEN faults + 1 ELSE faults
         /\ GetCall(Instr.d, Instr.stage, cat_rc)
         /\ locals' = Put(locals, Instr.var,
                          get_memex_content(node_map, nodes, Instr.d, cat_rc))
    /\ Continue
    /\ UNCHANGED <<variant, node_map, nodes, edges, temp_txt, files, stored, exVars>>

\* the texts of the variables embedded in the prompt
PromptContext == [k \in 1..Len(Instr.ctx) |-> locals[Instr.ctx[k]]]

\* the generator error is printed and the stage goes on with an empty response
GenerateErrorSwallowed ==
    /\ history' = Append(history,
           [NoEvent EXCEPT !.ev = "gen", !.stage = Instr.stage, !.ok = FALSE,
                           !.ctx = PromptContext])
    /\ locals' = Put(locals, Instr.var, <<>>)
    /\ status' = status
    /\ pc' = pc + 1

\* the generator call raises (transport error, timeout): the stage re-raises
GenerateRaises ==
    /\ history' = Append(history,
           [NoEvent EXCEPT !.ev = "gen", !.stage = Instr.stage, !.ok = FALSE,
                           !.ctx = PromptContext])
    /\ locals' = locals
    /\ Raise

GenerateReturns(response) ==
    /\ history' = Append(history,
           [NoEvent EXCEPT !.ev = "gen", !.stage = Instr.stage, !.ctx = PromptContext])
    /\ locals' = Put(locals, Instr.var, response)
    /\ Continue

Generate ==
    /\ Running /\ Instr.op = "gen"
    /\ \/ GenerateRaises
       \/ \E response \in Responses : GenerateReturns(response)
    /\ UNCHANGED <<variant, node_map, nodes, edges, temp_txt, files, last, stored,
                   faults, exVars>>

\* does the fenced-block search find a block of this language
HasCodeBlock(content, language) ==
    \E i \in 1..Len(content) : CodeMatchAt(content, language, i)

\* is the _write_file call of the instruction executed
WriteRuns ==
    Instr.xform = "code_if_match" => HasCodeBlock(locals[Instr.var], Instr.arg)

WriteText ==
    CASE Instr.xform = "raw" -> locals[Instr.var]
      [] Instr.xform = "text" -> Instr.text
      [] Instr.xform = "json" -> extract_json(locals[Instr.var], Instr.arg)
      [] Instr.xform = "section" -> extract_section(locals[Instr.var], Instr.arg)
      [] Instr.xform \in {"code", "code_if_match"} ->
             extract_code(locals[Instr.var], Instr.arg)

Write ==
    /\ Running /\ Instr.op = "write"
    /\ IF WriteRuns
       THEN /\ files' = Put(files, Instr.path, WriteText)
            /\ history' = Append(history,
                   [NoEvent EXCEPT !.ev = "write", !.stage = Instr.stage,
                                   !.path = Instr.path])
       ELSE UNCHANGED <<files, history>>
    /\ Continue
    /\ UNCHANGED <<variant, node_map, nodes, edges, temp_txt, locals, last, stored,
                   faults, exVars>>

\* run(["memex", "link", ...]): the exit code is not looked at
LinkEdges(rc) ==
    IF rc = 0
    THEN edges \cup {<<node_map[Instr.d], node_map[Instr.d2], Instr.rel>>}
    ELSE edges

Link ==
    /\ Running /\ Instr.op = "link"
    /\ IF {Instr.d, Instr.d2} \subseteq DOMAIN node_map
       THEN \E rc \in {0, 1} :
              /\ rc # 0 => faults < MaxFaults
              /\ faults' = IF rc # 0 THEN faults + 1 ELSE faults
              /\ edges' = LinkEdges(rc)
              /\ history' = Append(history,
                     [NoEvent EXCEPT !.ev = "link", !.stage = Instr.stage,
                                     !.d = Instr.d, !.d2 = Instr.d2,
                                     !.rel = Instr.rel, !.ok = rc = 0])
              /\ Continue
       ELSE /\ UNCHANGED <<edges, faults>>
            /\ history' = Append(history,
                   [NoEvent EXCEPT !.ev = "keyerror", !.stage = Instr.stage,
                                   !.ok = FALSE])
            /\ Raise
    /\ UNCHANGED <<variant, node_map, nodes, temp_txt, files, locals, last, stored,
                   exVars>>

\* start_project returns
Finish ==
    /\ variant \in {"v1", "v2"} /\ status = "running" /\ pc = Len(Program) + 1
    /\ status' = "done"
    /\ UNCHANGED <<variant, pc, node_map, nodes, edges, temp_txt, files, locals,
                   last, stored, history, faults, exVars>>

EmptyFn == [x \in {} |-> 0]

\* after __init__: an empty registry, a fresh store, no staging file
InitPipe ==
    /\ pc = 1
    /\ status = "running"
    /\ node_map = EmptyFn
    /\ nodes = <<>>
    /\ edges = {}
    /\ temp_txt = Absent
    /\ files = EmptyFn
    /\ locals = EmptyFn
    /\ last = NoLast
    /\ stored = EmptyFn
    /\ history = <<>>
    /\ faults = 0

InitEx ==
    /\ ex_content = <<>>
    /\ ex_arg = <<>>
    /\ ex_op = "none"
    /\ ex_result = <<>>

Init ==
    /\ variant \in {"v1", "v2"}
    /\ InitPipe
    /\ InitEx

Next ==
    \/ Begin
    \/ End
    \/ Assign
    \/ Store
    \/ Get
    \/ Generate
    \/ Write
    \/ Link
    \/ Finish

Spec == Init /\ [][Next]_vars

----------------------------------------------------------------------------
(* The registry methods called directly, in any order, on one agent object *)

ApiDescriptions == {"a", "b"}

ApiTexts == {<<"x">>, <<"y">>}

ApiStore ==
    /\ variant = "api" /\ Len(history) < MaxCalls
    /\ \E description \in ApiDescriptions, content \in ApiTexts,
          env \in StoreEnvs(Len(nodes)) :
         StoreCall(content, description, "", env)
    /\ UNCHANGED <<variant, pc, status, edges, files, locals, faults, exVars>>

ApiGet ==
    /\ variant = "api" /\ Len(history) < MaxCalls
    /\ \E description \in ApiDescriptions :
         \E cat_rc \in CatRcs(description) : GetCall(description, "", cat_rc)
    /\ UNCHANGED <<variant, pc, status, node_map, nodes, edges, temp_txt, files,
                   locals, stored, faults, exVars>>

InitApi ==
    /\ variant = "api"
    /\ InitPipe
    /\ InitEx

NextApi ==
    \/ ApiStore
    \/ ApiGet

SpecApi == InitApi /\ [][NextApi]_vars

----------------------------------------------------------------------------
(* The extractor functions applied to bounded texts *)

\* a heading line "# h" followed by a body of braces, quotes and letters
JsonInputs ==
    {<<<<"#", " ", "h", "\n">> \o b, <<"h">>>> :
        b \in SeqsUpTo({"{", "}", "\"", "a"}, MaxJsonBody)}

\* an opening fence with tag t followed by backticks, newlines and letters
CodeInputs ==
    {<<Fence \o <<"t">> \o b, <<"t">>>> :
        b \in SeqsUpTo({BT, "\n", "a"}, MaxCodeBody)}

\* texts of heading markers, blanks, newlines and letters
SectionInputs ==
    {<<b, <<"h">>>> : b \in SeqsUpTo({"#", " ", "\n", "h", "a"}, MaxSectionLen)}

\* texts with the heading "# h" or the deeper heading "## h" on the first
\* line and a body of letters, heading markers and newlines
HeadedSectionInputs ==
    {<<p \o <<"#", " ", "h", "\n">> \o b, <<"h">>>> :
        p \in {<<>>, <<"#">>}, b \in SeqsUpTo({"#", "a", "\n"}, MaxSectionBody)}

ExtractInputs == JsonInputs \cup CodeInputs \cup SectionInputs \cup HeadedSectionInputs

ExtractSection ==
    /\ variant = "extract" /\ ex_op = "none"
    /\ ex_op' = "section"
    /\ ex_result' = extract_section(ex_content, ex_arg)
    /\ UNCHANGED <<pipeVars, ex_content, ex_arg>>

ExtractJson ==
    /\ variant = "extract" /\ ex_op = "none"
    /\ ex_op' = "json"
    /\ ex_result' = extract_json(ex_content, ex_arg)
    /\ UNCHANGED <<pipeVars, ex_content, ex_arg>>

ExtractCode ==
    /\ variant = "extract" /\ ex_op = "none"
    /\ ex_op' = "code"
    /\ ex_result' = extract_code(ex_content, ex_arg)
    /\ UNCHANGED <<pipeVars, ex_content, ex_arg>>

InitExtract ==
    /\ variant = "extract"
    /\ InitPipe
    /\ \E input \in ExtractInputs : ex_content = input[1] /\ ex_arg = input[2]
    /\ ex_op = "none"
    /\ ex_result = <<>>

NextExtract ==
    \/ ExtractSection
    \/ ExtractJson
    \/ ExtractCode

SpecExtract == InitExtract /\ [][NextExtract]_vars

----------------------------------------------------------------------------
(* Vocabulary of the properties *)

\* the fixed order of the stages
StageOrder ==
    <<"Config", "Structure", "FrontendComponent", "FrontendHook", "Backend",
      "Deployment">>

StageIndex(st) == CHOOSE k \in 1..Len(StageOrder) : StageOrder[k] = st

\* the stages whose generator is called
GeneratorStages == {"FrontendComponent", "FrontendHook", "Backend", "Deployment"}

\* the event records a call that raised
Raising(e) == e.ev \in {"store", "gen", "keyerror"} /\ ~e.ok

\* the descriptions a stage stores and the paths it writes
StageDescriptions(st) ==
    {Program[k].d : k \in {j \in 1..Len(Program) :
                             Program[j].op = "store" /\ Program[j].stage = st}}

StagePaths(st) ==
    {Program[k].path : k \in {j \in 1..Len(Program) :
                                Program[j].op = "write" /\ Program[j].stage = st}}

\* the store events of the history that added a node to the store
AddedNodes == {j \in 1..Len(history) :
                 history[j].ev = "store" /\ history[j].via \in {"add", "status", "none"}}

\* the last successful store event of a description
LastStoreOf(description) ==
    Max({j \in 1..Len(history) :
           history[j].ev = "store" /\ history[j].ok /\ history[j].d = description})

\* the registry holds exactly what the successful store events recorded
RegistryMatchesHistory ==
    /\ DOMAIN node_map =
         {history[j].d : j \in {k \in 1..Len(history) :
                                  history[k].ev = "store" /\ history[k].ok}}
    /\ \A description \in DOMAIN node_map :
         node_map[description] = history[LastStoreOf(description)].id

----------------------------------------------------------------------------
----------------------------------------------------------------------------
(* Reference scan of a JSON object: braces are counted outside quoted       *)
(* strings.                                                                 *)

\* index of the brace closing the object, scanning from k at the given depth
\* (0 if the text ends first); a quote toggles inString
RECURSIVE BalancedEnd(_, _, _, _)
BalancedEnd(s, k, depth, inString) ==
    IF k > Len(s) THEN 0
    ELSE IF inString THEN BalancedEnd(s, k + 1, depth, s[k] # "\"")
    ELSE IF s[k] = "\"" THEN BalancedEnd(s, k + 1, depth, TRUE)
    ELSE IF s[k] = "{" THEN BalancedEnd(s, k + 1, depth + 1, FALSE)
    ELSE IF s[k] = "}" /\ depth = 1 THEN k
    ELSE IF s[k] = "}" THEN BalancedEnd(s, k + 1, depth - 1, FALSE)
    ELSE BalancedEnd(s, k + 1, depth, FALSE)

\* the first opening brace outside a quoted string (Len(s)+1 if none)
ObjectStart(s) ==
    Min({k \in 1..Len(s) :
           /\ s[k] = "{"
           /\ Cardinality({j \in 1..(k - 1) : s[j] = "\""}) % 2 = 0}
        \cup {Len(s) + 1})

HasBalancedObject(s) ==
    ObjectStart(s) <= Len(s) /\ BalancedEnd(s, ObjectStart(s), 0, FALSE) > 0

OutermostObject(s) ==
    SubSeq(s, ObjectStart(s), BalancedEnd(s, ObjectStart(s), 0, FALSE))

(* C2: when the named section holds a properly nested object, _extract_json *)
(* returns the outermost balanced object, from its opening brace to the     *)
(* matching closing brace, braces inside quoted strings not counted.        *)
ExtractJsonReturnsOutermostObject ==
    (ex_op = "json" /\ HasBalancedObject(extract_section(ex_content, ex_arg)))
        => ex_result = OutermostObject(extract_section(ex_content, ex_arg))

----------------------------------------------------------------------------
(* C3: temp.txt does not exist when a call of _store_in_memex has returned *)
(* or raised, so it does not exist at any point between two calls of the   *)
(* run, at any stage boundary or at the end of the run.                    *)
StagingFileRemoved == temp_txt = Absent

\* a store call that raised because no id was found, after memex add succeeded
WitnessStoreRaisedWithoutId ==
    /\ last.op = "store" /\ last.raised /\ last.via = "none"
    /\ Len(nodes) >= 1
    /\ temp_txt = Absent

----------------------------------------------------------------------------
(* C4: when the generator call of a stage raises, the run is aborted with  *)
(* that call as its last event: the stage has stored no node, written no   *)
(* file and created no edge, the registry has no entry for a description   *)
(* of the stage, and registry and store hold exactly what the earlier      *)
(* stages put there.                                                       *)
GeneratorFailureStoresNothing ==
    \A i \in 1..Len(history) :
      (history[i].ev = "gen" /\ ~history[i].ok) =>
        /\ history[i].stage \in GeneratorStages
        /\ i = Len(history)
        /\ status = "aborted"
        /\ StageDescriptions(history[i].stage) \cap DOMAIN node_map = {}
        /\ StagePaths(history[i].stage) \cap DOMAIN files = {}
        /\ \A j \in 1..Len(history) :
             history[j].ev \in {"store", "write", "link"} =>
               history[j].stage # history[i].stage
        /\ Len(nodes) = Cardinality(AddedNodes)
        /\ RegistryMatchesHistory

\* the generator call of the Backend stage raised after earlier stages stored
WitnessGeneratorFailedInBackend ==
    /\ status = "aborted"
    /\ history # <<>>
    /\ history[Len(history)].ev = "gen"
    /\ ~history[Len(history)].ok
    /\ history[Len(history)].stage = "Backend"
    /\ "weather_display_component" \in DOMAIN node_map

----------------------------------------------------------------------------
(* C5: a successful _get_memex_content(d) after a successful               *)
(* _store_in_memex(c, d) returns c, on either id path of the store call.   *)
RoundTripReturnsStoredContent ==
    (last.op = "get" /\ last.rc = 0 /\ last.d \in DOMAIN stored)
        => last.text = stored[last.d]

----------------------------------------------------------------------------
(* C6: a store call under a description already recorded in the registry   *)
(* raises and leaves the registry unchanged.                               *)
DuplicateStoreRejected ==
    [][(/\ Len(history') = Len(history) + 1
        /\ last'.op = "store"
        /\ last'.d \in DOMAIN node_map)
          => (last'.raised /\ node_map' = node_map)]_vars

----------------------------------------------------------------------------
(* C7: resolving a description that was never stored raises; it returns no *)
(* text.                                                                   *)
UnknownDescriptionRaises ==
    (last.op = "get" /\ ~last.known) => last.raised

----------------------------------------------------------------------------
(* C8: when memex cat exits non-zero while a stage resolves a recorded     *)
(* description, the run is aborted at that call: no generator call and no  *)
(* later stage follows it.                                                 *)
CatFailureAbortsRun ==
    \A i \in 1..Len(history) :
      (history[i].ev = "get" /\ ~history[i].ok) =>
        /\ status = "aborted"
        /\ i = Len(history)

----------------------------------------------------------------------------
(* C9: when memex link exits non-zero, the run is aborted at that call: no *)
(* later link, file write or stage follows it.                             *)
LinkFailureAbortsRun ==
    \A i \in 1..Len(history) :
      (history[i].ev = "link" /\ ~history[i].ok) =>
        /\ status = "aborted"
        /\ i = Len(history)

----------------------------------------------------------------------------
(* C10: once a stage has run to its end, every node it stored is in the    *)
(* store and recorded in the registry under its description, every edge it *)
(* linked is in the store, and a description resolved afterwards yields    *)
(* the content that was stored under it.                                   *)
EndedStagesPersisted ==
    /\ \A k \in 1..Len(Program) :
         (k < pc /\ Program[k].op = "end") =>
           \A j \in 1..k :
             /\ Program[j].op = "store" =>
                  /\ Program[j].d \in DOMAIN node_map
                  /\ node_map[Program[j].d] \in 1..Len(nodes)
                  /\ nodes[node_map[Program[j].d]] = stored[Program[j].d]
             /\ Program[j].op = "link" =>
                  <<node_map[Program[j].d], node_map[Program[j].d2], Program[j].rel>>
                      \in edges
    /\ (variant \in {"v1", "v2"} /\ last.op = "get") => last.text = stored[last.d]

----------------------------------------------------------------------------
\* the successful store events of a description before event i
StoredBefore(description, i) ==
    {j \in 1..(i - 1) :
       history[j].ev = "store" /\ history[j].ok /\ history[j].d = description}

\* the id memex add gave the node that store event j added: nodes are
\* numbered in the order they were added
NodeAddedBy(j) == Cardinality({k \in AddedNodes : k <= j})

(* C11: the link command of the Frontend-Hook stage is issued only after   *)
(* the display-component node and then the hook node were added to the     *)
(* store and recorded in the registry, and the edge it creates has the     *)
(* node added for the hook as source and the node added for the display    *)
(* component as destination; no "provides-data" edge runs the other way.   *)
HookEdgeFromHookNodeToComponentNode ==
    /\ \A i \in 1..Len(history) :
         (history[i].ev = "link" /\ history[i].stage = "FrontendHook") =>
           /\ StoredBefore("weather_display_component", i) # {}
           /\ StoredBefore("weather_hook", i) # {}
           /\ Max(StoredBefore("weather_display_component", i))
                < Min(StoredBefore("weather_hook", i))
           /\ history[i].ok =>
                <<NodeAddedBy(Max(StoredBefore("weather_hook", i))),
                  NodeAddedBy(Max(StoredBefore("weather_display_component", i))),
                  "provides-data">> \in edges
    /\ \A e \in edges :
         e[3] = "provides-data" =>
           /\ StoredBefore("weather_hook", Len(history) + 1) # {}
           /\ StoredBefore("weather_display_component", Len(history) + 1) # {}
           /\ e[1] = NodeAddedBy(Max(StoredBefore("weather_hook", Len(history) + 1)))
           /\ e[2] = NodeAddedBy(Max(StoredBefore("weather_display_component",
                                                    Len(history) + 1)))

\* the events of a stage of a given kind
StageEvents(st, ev) ==
    {j \in 1..Len(history) : history[j].stage = st /\ history[j].ev = ev}

\* the Frontend-Component stage has run to its end
FrontendComponentEnded ==
    \E i \in 1..Len(history) :
      history[i].ev = "end" /\ history[i].stage = "FrontendComponent"

(* C12: once the Structure stage and then the Frontend-Component stage     *)
(* have run after the Config stage, the two stages added exactly one node  *)
(* per generator call, the Frontend-Component stage (the one of the two    *)
(* that calls the generator) created exactly one edge, and every target    *)
(* file of the two stages is written at its path with non-empty content.   *)
StructureThenFrontendOneNodeOneEdge ==
    FrontendComponentEnded =>
      /\ Cardinality({j \in AddedNodes :
                        history[j].stage \in {"Structure", "FrontendComponent"}})
           = Cardinality(StageEvents("Structure", "gen")
                           \cup StageEvents("FrontendComponent", "gen"))
      /\ Cardinality({j \in StageEvents("FrontendComponent", "link") : history[j].ok})
           = 1
      /\ StageEvents("Structure", "link") = {}
      /\ \A path \in StagePaths("Structure") \cup StagePaths("FrontendComponent") :
           /\ path \in DOMAIN files
           /\ files[path] # <<>>

\* the positions where a fence opened with the tag starts
OpeningFences(content, language) ==
    {i \in 1..Len(content) : IsPrefixAt(Fence \o language, content, i)}

\* no fence opened with the tag is followed by a closing fence
NoFencedBlock(content, language) ==
    \A i \in OpeningFences(content, language) :
      \A k \in (i + 3 + Len(language))..Len(content) :
        ~IsPrefixAt(Fence, content, k)

(* C13: when the content holds no complete fenced block opened with the    *)
(* tag (no opening fence with that tag, or one that is never closed),      *)
(* _extract_code returns the content itself, untrimmed, and applying       *)
(* _extract_code to that result with the same tag returns it again.        *)
ExtractCodeFallbackReturnsContent ==
    (ex_op = "code" /\ NoFencedBlock(ex_content, ex_arg)) =>
      /\ ex_result = ex_content
      /\ extract_code(ex_result, ex_arg) = ex_result

\* an opening fence that is never closed, in a content that ends with a
\* newline, came back whole
WitnessUnclosedFenceReturnedUntrimmed ==
    /\ ex_op = "code"
    /\ OpeningFences(ex_content, ex_arg) # {}
    /\ NoFencedBlock(ex_content, ex_arg)
    /\ ex_content[Len(ex_content)] = "\n"
    /\ Strip(ex_content) # ex_content
    /\ ex_result = ex_content

\* Reference reading of a text by lines: where lines start, and the lines
\* that begin with the heading marker followed by the name as a whole word
LineStarts(content) ==
    {i \in 1..Len(content) : i = 1 \/ content[i - 1] = "\n"}

HeadingLines(content, section_name) ==
    {i \in LineStarts(content) :
       /\ IsPrefixAt(<<"#", " ">> \o section_name, content, i)
       /\ i + 2 + Len(section_name) <= Len(content)
            => content[i + 2 + Len(section_name)] \in WS}

\* the trimmed text between the heading of the first such line and the next
\* line that starts with a heading marker, or the end
SectionOf(content, section_name) ==
    IF HeadingLines(content, section_name) = {} THEN <<>>
    ELSE LET b == Min(HeadingLines(content, section_name)) + 2 + Len(section_name)
             nextHeading == Min({j \in LineStarts(content) :
                                   j >= b /\ content[j] = "#"}
                                \cup {Len(content) + 1})
         IN  IF b > Len(content) THEN <<>>
             ELSE Strip(SubSeq(content, b, nextHeading - 1))

(* C14: _extract_section returns the trimmed text between the heading of   *)
(* the first line that begins with "# name" and the next line starting     *)
(* with a heading marker, or the end of the content; a '#' inside the body does not end   *)
(* the section, a heading of another level or name is not taken for the    *)
(* requested one, and the result is empty when the heading does not occur. *)
ExtractSectionReturnsSectionBody ==
    ex_op = "section" => ex_result = SectionOf(ex_content, ex_arg)

\* the generator stages that have run to their end
EndedGeneratorStages ==
    {history[i].stage : i \in {j \in 1..Len(history) :
                                 /\ history[j].ev = "end"
                                 /\ history[j].stage \in GeneratorStages}}

(* C15: in every generator stage that ran to its end, the response was     *)
(* stored before any target file of the stage was written, every target    *)
(* file of the stage was written before the first link command of the      *)
(* stage, and the stage issued at least one link command from a node it    *)
(* stored to a node whose description it resolved for its prompt.          *)
StageStoresThenWritesThenLinks ==
    \A st \in EndedGeneratorStages :
      /\ StageEvents(st, "store") # {}
      /\ StageEvents(st, "write") # {}
      /\ Min(StageEvents(st, "store")) < Min(StageEvents(st, "write"))
      /\ StageEvents(st, "link") # {}
      /\ Max(StageEvents(st, "write")) < Min(StageEvents(st, "link"))
      /\ \E l \in StageEvents(st, "link") :
           /\ \E j \in StageEvents(st, "store") : history[j].d = history[l].d
           /\ \E g \in StageEvents(st, "get") : history[g].d = history[l].d2

\* the descriptions the next statement looks up in the registry
LookedUp ==
    CASE Instr.op = "get" -> {Instr.d}
      [] Instr.op = "link" -> {Instr.d, Instr.d2}
      [] OTHER -> {}

(* C16: in every run of either pipeline, each _store_in_memex call is made *)
(* with a description that is not yet a key of node_map, and every         *)
(* description passed to _get_memex_content or looked up in node_map for a *)
(* link command was recorded by an earlier successful store of the run; no *)
(* lookup of node_map ever fails.                                          *)
StageWiringMeetsRegistryPreconditions ==
    /\ Running =>
         /\ Instr.op = "store" => Instr.d \notin DOMAIN node_map
         /\ LookedUp \subseteq DOMAIN node_map
    /\ \A i \in 1..Len(history) :
         /\ history[i].ev # "keyerror"
         /\ history[i].ev = "store" => StoredBefore(history[i].d, i) = {}
         /\ history[i].ev = "get" => StoredBefore(history[i].d, i) # {}
         /\ history[i].ev = "link" =>
              /\ StoredBefore(history[i].d, i) # {}
              /\ StoredBefore(history[i].d2, i) # {}
    /\ last.op = "get" => last.known

\* a run of the pipeline with link commands went through all its stores,
\* lookups and links to the end
WitnessWholeRunWired ==
    /\ status = "done"
    /\ \E i \in 1..Len(history) : history[i].ev = "link"
    /\ \E i \in 1..Len(history) : history[i].ev = "get"
    /\ Cardinality(DOMAIN node_map)
         = Cardinality({i \in 1..Len(history) : history[i].ev = "store"})
    /\ Cardinality(DOMAIN node_map) > 2

=============================================================================
